---- MODULE Spec2Model ----
(***************************************************************************)
(* Credit-card anomaly pipeline: generate_data.py -> preprocess.py ->      *)
(* train.py, three scripts coupled only through files.                     *)
(*                                                                         *)
(* Numbers are exact rationals <<num, den>> (den >= 0, lowest terms);      *)
(* <<0,0>> is NaN and <<1,0>> is +inf, as IEEE division produces them.     *)
(* Floating-point rounding error is not modelled.                          *)
(***************************************************************************)
EXTENDS Integers, Sequences, FiniteSets, TLC

VARIABLES
    fs,      \* path -> <<>> (no such file) or <<content>>
    dirs,    \* directories that exist
    pc,      \* position of the running script, "idle" when none runs
    df,      \* the running script's DataFrame
    loc,     \* the running script's other locals
    status,  \* how the last script ended: [script, code]
    argv,    \* arguments of the running script
    lib      \* the behaviour of the statistics library: fixed, unknown

vars == <<fs, dirs, pc, df, loc, status, argv, lib>>

----------------------------------------------------------------------------
(* Bounds of the model.                                                    *)

\* rows of a raw table drawn for the preprocessor alone
MaxRows == 3
\* stands for n_samples of version 1 (8950 in the source)
N_V1 == 10
\* stands for n_samples of version 2 (9500 in the source)
N_V2 == 11
\* stands for the 313 cells of MINIMUM_PAYMENTS made missing
NAN_MIN == 3
\* seeds tried for generate_credit_card_data called on its own
MaxSeed == 127
\* behaviours of the fitted forest that are tried
MaxLib == 1
\* seeds of the generated tables the trainer is run on, on its own
MaxTrainSeed == 15

----------------------------------------------------------------------------
(* Rational arithmetic with NaN and inf.                                   *)

NaN == <<0, 0>>

RECURSIVE GCD(_, _)
GCD(a, b) == IF b = 0 THEN a ELSE GCD(b, a % b)

Norm(n, d) ==
    IF d = 0 THEN (IF n = 0 THEN NaN ELSE <<1, 0>>)
    ELSE LET g == GCD(n, d) IN <<n \div g, d \div g>>

Num(k) == <<k, 1>>

IsNaN(v) == v[1] = 0 /\ v[2] = 0

RAdd(a, b) ==
    IF IsNaN(a) \/ IsNaN(b) THEN NaN
    ELSE Norm(a[1] * b[2] + b[1] * a[2], a[2] * b[2])

\* a - b for a >= b
RSub(a, b) ==
    IF IsNaN(a) \/ IsNaN(b) THEN NaN
    ELSE Norm(a[1] * b[2] - b[1] * a[2], a[2] * b[2])

RMul(a, b) ==
    IF IsNaN(a) \/ IsNaN(b) THEN NaN
    ELSE Norm(a[1] * b[1], a[2] * b[2])

RDiv(a, b) ==
    IF IsNaN(a) \/ IsNaN(b) THEN NaN
    ELSE Norm(a[1] * b[2], a[2] * b[1])

\* a <= b; false when either is NaN
RLe(a, b) == ~IsNaN(a) /\ ~IsNaN(b) /\ a[1] * b[2] <= b[1] * a[2]

----------------------------------------------------------------------------
(* pandas Series operations (a Series is a sequence of cells).             *)

RECURSIVE Insert(_, _)
Insert(s, v) ==
    IF s = <<>> THEN <<v>>
    ELSE IF RLe(v, Head(s)) THEN <<v>> \o s
    ELSE <<Head(s)>> \o Insert(Tail(s), v)

RECURSIVE Sort(_)
Sort(s) == IF s = <<>> THEN <<>> ELSE Insert(Sort(Tail(s)), Head(s))

dropna(s) == SelectSeq(s, LAMBDA v : ~IsNaN(v))

isna_sum(s) == Len(SelectSeq(s, IsNaN))

\* Series.median(): NaN skipped; the mean of the two middle values when even
median(s) ==
    LET v == Sort(dropna(s))
        m == Len(v)
    IN  IF m = 0 THEN NaN
        ELSE IF m % 2 = 1 THEN v[(m + 1) \div 2]
        ELSE RDiv(RAdd(v[m \div 2], v[m \div 2 + 1]), Num(2))

\* Series.quantile(q / 100): NaN skipped, linear interpolation at q(m-1)/100
quantile(s, q) ==
    LET v == Sort(dropna(s))
        m == Len(v)
        pos == q * (m - 1)
        lo == pos \div 100 + 1
        fr == pos % 100
    IN  IF m = 0 THEN NaN
        ELSE IF fr = 0 THEN v[lo]
        ELSE RAdd(v[lo], RMul(RSub(v[lo + 1], v[lo]), <<fr, 100>>))

fillna(s, v) == [i \in DOMAIN s |-> IF IsNaN(s[i]) THEN v ELSE s[i]]

\* Series.clip(upper), whose first positional argument is the lower bound
clip_as_lower(s, upper) ==
    [i \in DOMAIN s |->
        IF IsNaN(s[i]) \/ IsNaN(upper) \/ RLe(upper, s[i]) THEN s[i] ELSE upper]

\* Series.clip(upper=upper): NaN cells and a NaN threshold clip nothing
clip(s, upper) ==
    [i \in DOMAIN s |->
        IF IsNaN(s[i]) \/ IsNaN(upper) \/ RLe(s[i], upper) THEN s[i] ELSE upper]

SeriesDiv(a, b) == [i \in DOMAIN a |-> RDiv(a[i], b[i])]

SeriesAdd(a, k) == [i \in DOMAIN a |-> RAdd(a[i], Num(k))]

----------------------------------------------------------------------------
(* DataFrames: [columns: sequence of names, n: rows, data: name -> Series] *)

NoDF == [columns |-> <<>>, n |-> 0, data |-> <<>>]

ColSet(d) == {d.columns[i] : i \in DOMAIN d.columns}

HasCol(d, c) == c \in ColSet(d)

NumericCols(d) == ColSet(d) \ {"CUST_ID"}

\* df[c] = s : replaces the column, or appends it as the last one
SetCol(d, c, s) ==
    [columns |-> IF HasCol(d, c) THEN d.columns ELSE Append(d.columns, c),
     n |-> d.n,
     data |-> [k \in ColSet(d) \cup {c} |-> IF k = c THEN s ELSE d.data[k]]]

\* df.drop(columns=[c], errors="ignore")
drop_ignore(d, c) ==
    [columns |-> SelectSeq(d.columns, LAMBDA k : k # c),
     n |-> d.n,
     data |-> [k \in ColSet(d) \ {c} |-> d.data[k]]]

\* df.to_csv(path, index=False): a header line, then one line per row
to_csv(d) ==
    [header |-> d.columns,
     lines |-> [i \in 1..d.n |-> [j \in DOMAIN d.columns |-> d.data[d.columns[j]][i]]]]

\* pd.read_csv(path)
read_csv(f) ==
    [columns |-> f.header,
     n |-> Len(f.lines),
     data |-> [k \in {f.header[j] : j \in DOMAIN f.header} |->
                 LET j == CHOOSE j \in DOMAIN f.header : f.header[j] = k
                 IN  [i \in DOMAIN f.lines |-> f.lines[i][j]]]]

----------------------------------------------------------------------------
(* Files.                                                                  *)

RAW_PATH == "data/raw/CC_GENERAL.csv"
PROCESSED_PATH == "data/processed/CC_PROCESSED.csv"
MODEL_PATH == "models/isolation_forest.joblib"
SCALER_PATH == "models/scaler.joblib"
PCA_PATH == "models/pca.joblib"
METRICS_PATH == "reports/metrics.json"
FIGURES_DIR == "reports/figures"
PCA_VARIANCE_PNG == "reports/figures/pca_variance.png"
ANOMALY_SCATTER_PNG == "reports/figures/anomaly_scatter.png"
ANOMALY_SCORES_PNG == "reports/figures/anomaly_scores.png"

Paths ==
    {RAW_PATH, PROCESSED_PATH, MODEL_PATH, SCALER_PATH, PCA_PATH, METRICS_PATH,
     PCA_VARIANCE_PNG, ANOMALY_SCATTER_PNG, ANOMALY_SCORES_PNG}

NoFiles == [p \in Paths |-> <<>>]

Exists(p) == fs[p] # <<>>

\* written only when no such file exists yet
write_keeps_existing(files, path, content) ==
    IF files[path] = <<>> THEN [files EXCEPT ![path] = <<content>>] ELSE files

\* open(path, "w") and the writers built on it: the file is replaced
write_file(files, path, content) == [files EXCEPT ![path] = <<content>>]

NoStatus == [script |-> "none", code |-> "none"]

\* an uncaught exception: the process ends, its locals are gone
Raise(script) ==
    /\ pc' = "idle"
    /\ status' = [script |-> script, code |-> "error"]
    /\ df' = NoDF
    /\ loc' = <<>>
    /\ UNCHANGED <<fs, argv, lib>>

\* the step that follows p in a script's sequence of steps
After(steps, p) ==
    LET i == CHOOSE i \in DOMAIN steps : steps[i] = p
    IN  IF i = Len(steps) THEN "idle" ELSE steps[i + 1]

----------------------------------------------------------------------------
(* preprocess.py                                                           *)

cols_to_clip == <<"BALANCE", "PURCHASES", "CASH_ADVANCE", "PAYMENTS", "MINIMUM_PAYMENTS">>

CLIP_Q == 99

save_before_clip ==
    <<"pre_read", "pre_drop", "pre_fill", "pre_feat", "pre_save", "pre_clip">>

clip_before_features ==
    <<"pre_read", "pre_drop", "pre_fill", "pre_clip", "pre_feat", "pre_save">>

\* the order of the statements of preprocess()
preprocess_steps ==
    <<"pre_read", "pre_drop", "pre_fill", "pre_feat", "pre_clip", "pre_save">>

keep_identifier(d) == d

\* 1. drop the identifier column
drop_identifier(d) == drop_ignore(d, "CUST_ID")

fill_credit_limit_only(d) ==
    SetCol(d, "CREDIT_LIMIT", fillna(d.data["CREDIT_LIMIT"], median(d.data["CREDIT_LIMIT"])))

\* 2. fill missing values with the column's median
fill_missing(d) ==
    LET d1 == SetCol(d, "CREDIT_LIMIT",
                     fillna(d.data["CREDIT_LIMIT"], median(d.data["CREDIT_LIMIT"])))
    IN  SetCol(d1, "MINIMUM_PAYMENTS",
               fillna(d1.data["MINIMUM_PAYMENTS"], median(d1.data["MINIMUM_PAYMENTS"])))

\* 3. feature engineering
feature_engineering(d) ==
    LET d1 == SetCol(d, "MONTHLY_AVG_PURCHASE",
                     SeriesDiv(d.data["PURCHASES"], d.data["TENURE"]))
        d2 == SetCol(d1, "MONTHLY_AVG_CASH_ADVANCE",
                     SeriesDiv(d1.data["CASH_ADVANCE"], d1.data["TENURE"]))
        d3 == SetCol(d2, "PURCHASE_TO_LIMIT_RATIO",
                     SeriesDiv(d2.data["PURCHASES"], SeriesAdd(d2.data["CREDIT_LIMIT"], 1)))
    IN  SetCol(d3, "BALANCE_TO_LIMIT_RATIO",
               SeriesDiv(d3.data["BALANCE"], SeriesAdd(d3.data["CREDIT_LIMIT"], 1)))

\* 4. for col in cols_to_clip[k..]: clip at the column's own 99th percentile
RECURSIVE clip_outliers(_, _)
clip_outliers(d, k) ==
    IF k > Len(cols_to_clip) THEN d
    ELSE LET col == cols_to_clip[k]
             upper == quantile(d.data[col], CLIP_Q)
         IN  clip_outliers(SetCol(d, col, clip(d.data[col], upper)), k + 1)

\* preprocess() from the table read to the table written
preprocess_df(d) ==
    clip_outliers(feature_engineering(fill_missing(drop_identifier(d))), 1)

Dirname(path) == IF path = PROCESSED_PATH THEN "data/processed" ELSE "data/raw"

PreStart ==
    /\ pc = "idle"
    /\ pc' = "pre_read"
    /\ argv' = [input_path |-> RAW_PATH, output_path |-> PROCESSED_PATH]
    /\ df' = NoDF
    /\ loc' = <<>>
    /\ UNCHANGED <<fs, dirs, status, lib>>

PreRead ==
    /\ pc = "pre_read"
    /\ IF Exists(argv.input_path)
       THEN /\ df' = read_csv(fs[argv.input_path][1])
            /\ pc' = After(preprocess_steps, pc)
            /\ UNCHANGED <<fs, dirs, loc, status, argv, lib>>
       ELSE Raise("preprocess") /\ UNCHANGED dirs

PreDrop ==
    /\ pc = "pre_drop"
    /\ df' = drop_identifier(df)
    /\ pc' = After(preprocess_steps, pc)
    /\ UNCHANGED <<fs, dirs, loc, status, argv, lib>>

PreFill ==
    /\ pc = "pre_fill"
    /\ IF {"CREDIT_LIMIT", "MINIMUM_PAYMENTS"} \subseteq ColSet(df)
       THEN /\ df' = fill_missing(df)
            /\ pc' = After(preprocess_steps, pc)
            /\ UNCHANGED <<fs, dirs, loc, status, argv, lib>>
       ELSE Raise("preprocess") /\ UNCHANGED dirs

PreFeat ==
    /\ pc = "pre_feat"
    /\ IF {"PURCHASES", "TENURE", "CASH_ADVANCE", "CREDIT_LIMIT", "BALANCE"} \subseteq ColSet(df)
       THEN /\ df' = feature_engineering(df)
            /\ pc' = After(preprocess_steps, pc)
            /\ UNCHANGED <<fs, dirs, loc, status, argv, lib>>
       ELSE Raise("preprocess") /\ UNCHANGED dirs

PreClip ==
    /\ pc = "pre_clip"
    /\ IF {cols_to_clip[k] : k \in DOMAIN cols_to_clip} \subseteq ColSet(df)
       THEN /\ df' = clip_outliers(df, 1)
            /\ pc' = After(preprocess_steps, pc)
            /\ UNCHANGED <<fs, dirs, loc, status, argv, lib>>
       ELSE Raise("preprocess") /\ UNCHANGED dirs

\* os.makedirs(dirname, exist_ok=True); df.to_csv(output_path, index=False); return df
PreSave ==
    /\ pc = "pre_save"
    /\ dirs' = dirs \cup {Dirname(argv.output_path)}
    /\ fs' = write_file(fs, argv.output_path, to_csv(df))
    /\ pc' = After(preprocess_steps, pc)
    /\ status' = [script |-> "preprocess", code |-> "ok"]
    /\ UNCHANGED <<df, loc, argv, lib>>

Preprocess == PreStart \/ PreRead \/ PreDrop \/ PreFill \/ PreFeat \/ PreClip \/ PreSave

----------------------------------------------------------------------------
(* Raw tables for preprocess on its own: every table of 1..MaxRows rows    *)
(* taken from RowPool, with or without the identifier column.              *)

NumericColumns ==
    <<"BALANCE", "BALANCE_FREQUENCY", "PURCHASES", "ONEOFF_PURCHASES",
      "INSTALLMENTS_PURCHASES", "CASH_ADVANCE", "PURCHASES_FREQUENCY",
      "ONEOFF_PURCHASES_FREQUENCY", "PURCHASES_INSTALLMENTS_FREQUENCY",
      "CASH_ADVANCE_FREQUENCY", "CASH_ADVANCE_TRX", "PURCHASES_TRX", "CREDIT_LIMIT",
      "PAYMENTS", "MINIMUM_PAYMENTS", "PRC_FULL_PAYMENT", "TENURE">>

Columns == <<"CUST_ID">> \o NumericColumns

DerivedColumns ==
    <<"MONTHLY_AVG_PURCHASE", "MONTHLY_AVG_CASH_ADVANCE", "PURCHASE_TO_LIMIT_RATIO",
      "BALANCE_TO_LIMIT_RATIO">>

\* <<BALANCE, PURCHASES, CASH_ADVANCE, CREDIT_LIMIT, PAYMENTS, MINIMUM_PAYMENTS, TENURE>>
RowPool ==
    { <<Num(1500), Num(1000), Num(900),  Num(500),   Num(1500), Num(400),  Num(6)>>,
      <<Num(0),    Num(0),    Num(0),    Num(1000),  Num(0),    NaN,       Num(12)>>,
      <<Num(3000), Num(2400), Num(0),    NaN,        Num(300),  Num(40),   Num(12)>>,
      <<Num(30),   Num(7),    Num(1800), Num(20000), Num(4500), Num(1200), Num(7)>>,
      <<Num(1500), Num(1000), Num(900),  NaN,        Num(1500), NaN,       Num(6)>>,
      <<Num(6000), Num(5000), Num(2700), Num(1500),  Num(9000), Num(2000), Num(10)>>,
      \* outside the generator's ranges: nothing bought in a tenure of 0 months
      <<Num(0),    Num(0),    Num(0),    Num(500),   Num(0),    Num(40),   Num(0)>> }

PoolCell(r, col) ==
    CASE col = "BALANCE" -> r[1]
      [] col = "PURCHASES" -> r[2]
      [] col = "CASH_ADVANCE" -> r[3]
      [] col = "CREDIT_LIMIT" -> r[4]
      [] col = "PAYMENTS" -> r[5]
      [] col = "MINIMUM_PAYMENTS" -> r[6]
      [] col = "TENURE" -> r[7]
      [] col \in {"CASH_ADVANCE_TRX", "PURCHASES_TRX"} -> Num(3)
      [] col \in {"ONEOFF_PURCHASES", "INSTALLMENTS_PURCHASES"} -> Num(100)
      [] OTHER -> <<1, 2>>

Zfill4(i) == IF i < 10 THEN "000" ELSE IF i < 100 THEN "00" ELSE IF i < 1000 THEN "0" ELSE ""

CustId(i) == "C1" \o Zfill4(i) \o ToString(i)

PoolTable(rows, withId) ==
    [columns |-> IF withId THEN Columns ELSE NumericColumns,
     n |-> Len(rows),
     data |-> [c \in {NumericColumns[j] : j \in DOMAIN NumericColumns}
                      \cup (IF withId THEN {"CUST_ID"} ELSE {}) |->
                 [i \in DOMAIN rows |->
                    IF c = "CUST_ID" THEN CustId(i) ELSE PoolCell(rows[i], c)]]]

PoolTables ==
    {PoolTable(rows, withId) :
        rows \in UNION {[1..k -> RowPool] : k \in 1..MaxRows}, withId \in BOOLEAN}

InitPre ==
    /\ \E t \in PoolTables : fs = write_file(NoFiles, RAW_PATH, to_csv(t))
    /\ dirs = {"data/raw"}
    /\ pc = "idle"
    /\ df = NoDF
    /\ loc = <<>>
    /\ status = NoStatus
    /\ argv = <<>>
    /\ lib = 0

NextPre == Preprocess

SpecPre == InitPre /\ [][NextPre]_vars

----------------------------------------------------------------------------
(* generate_data.py                                                        *)
(*                                                                         *)
(* numpy's global generator is a deterministic stream: a small counter-    *)
(* based generator stands for it.  A fresh process starts it from          *)
(* operating-system entropy; np.random.seed replaces that state.           *)

SEED_V1 == 42
SEED_V2 == 99
NAN_CREDIT == 1

\* states the generator of a fresh process may start in
MaxEntropy == 1

\* a state is [key, ctr]; each draw advances the counter
NextRng(s) == [key |-> s.key, ctr |-> s.ctr + 1]

RngAfter(s, k) == [key |-> s.key, ctr |-> s.ctr + k]

\* the number drawn on reaching state s
Out(s) ==
    ((s.key + 1) * 7919 + s.ctr * 104729 + (s.key + 1) * s.ctr * 31
        + (s.key + 3) * s.ctr * s.ctr) % 65537

\* the state a fresh process draws from the operating system
Entropy(e) == [key |-> 1000 + e, ctr |-> 0]

seed_not_applied(state, seed) == state

\* np.random.seed(seed)
np_random_seed(state, seed) == [key |-> seed, ctr |-> 0]

CreditTiers == <<500, 1000, 1500, 2000, 3000, 5000, 7500, 10000, 15000, 20000>>

\* the columns of the data dict after CUST_ID, in the order they are drawn
ColumnSpecs ==
    << [name |-> "BALANCE", dist |-> "exponential", a |-> 1500, b |-> 1],
       [name |-> "BALANCE_FREQUENCY", dist |-> "uniform", a |-> 1, b |-> 1],
       [name |-> "PURCHASES", dist |-> "exponential", a |-> 1000, b |-> 1],
       [name |-> "ONEOFF_PURCHASES", dist |-> "exponential", a |-> 500, b |-> 1],
       [name |-> "INSTALLMENTS_PURCHASES", dist |-> "exponential", a |-> 400, b |-> 1],
       [name |-> "CASH_ADVANCE", dist |-> "exponential", a |-> 900, b |-> 1],
       [name |-> "PURCHASES_FREQUENCY", dist |-> "uniform", a |-> 1, b |-> 1],
       [name |-> "ONEOFF_PURCHASES_FREQUENCY", dist |-> "uniform", a |-> 1, b |-> 1],
       [name |-> "PURCHASES_INSTALLMENTS_FREQUENCY", dist |-> "uniform", a |-> 1, b |-> 1],
       [name |-> "CASH_ADVANCE_FREQUENCY", dist |-> "uniform", a |-> 1, b |-> 2],
       [name |-> "CASH_ADVANCE_TRX", dist |-> "randint", a |-> 0, b |-> 20],
       [name |-> "PURCHASES_TRX", dist |-> "randint", a |-> 0, b |-> 100],
       [name |-> "CREDIT_LIMIT", dist |-> "choice", a |-> 0, b |-> 0],
       [name |-> "PAYMENTS", dist |-> "exponential", a |-> 1500, b |-> 1],
       [name |-> "MINIMUM_PAYMENTS", dist |-> "exponential", a |-> 400, b |-> 1],
       [name |-> "PRC_FULL_PAYMENT", dist |-> "uniform", a |-> 1, b |-> 1],
       [name |-> "TENURE", dist |-> "randint", a |-> 6, b |-> 13] >>

\* one value of a column's distribution from one output r of the generator:
\* exponential(scale=a) >= 0, uniform(0, a/b) in [0, a/b), randint(a, b) in a..b-1,
\* choice over the credit-limit tiers
Sample(c, r) ==
    CASE c.dist = "exponential" -> Norm(c.a * (r % 7), 2)
      [] c.dist = "uniform" -> Norm(c.a * (r % 4), c.b * 4)
      [] c.dist = "randint" -> Num(c.a + (r % (c.b - c.a)))
      [] c.dist = "choice" -> Num(CreditTiers[(r % Len(CreditTiers)) + 1])

\* size=n values of column c, drawn one after the other from state s
DrawColumn(c, s, n) == [i \in 1..n |-> Sample(c, Out(RngAfter(s, i)))]

Remove(pool, j) == [i \in 1..(Len(pool) - 1) |-> IF i < j THEN pool[i] ELSE pool[i + 1]]

RECURSIVE choice_with_replacement(_, _, _)
choice_with_replacement(index, s, size) ==
    IF size = 0 THEN <<>>
    ELSE LET s1 == NextRng(s)
         IN  <<index[(Out(s1) % Len(index)) + 1]>> \o choice_with_replacement(index, s1, size - 1)

\* np.random.choice(index, size=size, replace=False): size distinct elements
RECURSIVE choice(_, _, _)
choice(index, s, size) ==
    IF size = 0 THEN <<>>
    ELSE LET s1 == NextRng(s)
             j == (Out(s1) % Len(index)) + 1
         IN  <<index[j]>> \o choice(Remove(index, j), s1, size - 1)

\* df.loc[idx, col] = np.nan
SetNaN(d, idx, col) ==
    SetCol(d, col,
           [i \in 1..d.n |->
              IF \E k \in DOMAIN idx : idx[k] = i THEN NaN ELSE d.data[col][i]])

\* generate_credit_card_data(n_samples, seed), the generator being in state rng0
generate_credit_card_data(n_samples, seed, rng0) ==
    LET s0 == np_random_seed(rng0, seed)
        start(k) == RngAfter(s0, (k - 1) * n_samples)
        data == [c \in ColSet([columns |-> Columns]) |->
                   IF c = "CUST_ID" THEN [i \in 1..n_samples |-> CustId(i)]
                   ELSE LET k == CHOOSE k \in DOMAIN ColumnSpecs : ColumnSpecs[k].name = c
                        IN  DrawColumn(ColumnSpecs[k], start(k), n_samples)]
        frame == [columns |-> Columns, n |-> n_samples, data |-> data]
        index == [i \in 1..n_samples |-> i]
        s1 == RngAfter(s0, Len(ColumnSpecs) * n_samples)
        nan_idx_credit == choice(index, s1, NAN_CREDIT)
        nan_idx_min == choice(index, RngAfter(s1, NAN_CREDIT), NAN_MIN)
    IN  SetNaN(SetNaN(frame, nan_idx_credit, "CREDIT_LIMIT"), nan_idx_min, "MINIMUM_PAYMENTS")

\* argparse: --version in {1, 2}, default 1
parse_args(args) == IF args = <<>> THEN 1 ELSE args[2]

CommandLines == {<<>>, <<"--version", 1>>, <<"--version", 2>>}

\* main(): version 1 -> (8950, 42), otherwise -> (9500, 99)
version_params(version) ==
    IF version = 1 THEN [n_samples |-> N_V1, seed |-> SEED_V1]
    ELSE [n_samples |-> N_V2, seed |-> SEED_V2]

generate_steps == <<"gen_mkdir", "gen_data", "gen_save">>

GenStart ==
    /\ pc = "idle"
    /\ \E args \in CommandLines, e \in 0..MaxEntropy :
          /\ argv' = [args |-> args, version |-> parse_args(args)]
          /\ loc' = [rng |-> Entropy(e)]
    /\ pc' = "gen_mkdir"
    /\ df' = NoDF
    /\ UNCHANGED <<fs, dirs, status, lib>>

GenMkdir ==
    /\ pc = "gen_mkdir"
    /\ dirs' = dirs \cup {"data/raw"}
    /\ pc' = After(generate_steps, pc)
    /\ UNCHANGED <<fs, df, loc, status, argv, lib>>

GenData ==
    /\ pc = "gen_data"
    /\ LET a == version_params(argv.version)
       IN  df' = generate_credit_card_data(a.n_samples, a.seed, loc.rng)
    /\ pc' = After(generate_steps, pc)
    /\ UNCHANGED <<fs, dirs, loc, status, argv, lib>>

GenSave ==
    /\ pc = "gen_save"
    /\ fs' = write_file(fs, RAW_PATH, to_csv(df))
    /\ pc' = After(generate_steps, pc)
    /\ status' = [script |-> "generate", code |-> "ok"]
    /\ UNCHANGED <<dirs, df, loc, argv, lib>>

Generate == GenStart \/ GenMkdir \/ GenData \/ GenSave

----------------------------------------------------------------------------
(* train.py                                                                *)
(*                                                                         *)
(* The fitted scaler, projections and forest are deterministic functions   *)
(* of the table and of random_state; which functions is the library's      *)
(* business (lib).  Tree scores are integers in units of 1/100, decision   *)
(* scores integers in units of 1/10000.                                    *)

CONTAMINATION == <<1, 20>>
N_COMPONENTS == 10
N_ESTIMATORS == 200
RANDOM_STATE == 42

IsInf(v) == v[2] = 0 /\ v[1] # 0

RECURSIVE SumInt(_)
SumInt(s) == IF s = <<>> THEN 0 ELSE Head(s) + SumInt(Tail(s))

RECURSIVE InsertInt(_, _)
InsertInt(s, v) ==
    IF s = <<>> THEN <<v>>
    ELSE IF v <= Head(s) THEN <<v>> \o s
    ELSE <<Head(s)>> \o InsertInt(Tail(s), v)

RECURSIVE SortInt(_)
SortInt(s) == IF s = <<>> THEN <<>> ELSE InsertInt(SortInt(Tail(s)), Head(s))

MinInt(s) == SortInt(s)[1]

MaxInt(s) == SortInt(s)[Len(s)]

\* round(a / b) to the nearest integer, ties to even (b > 0)
RoundHalfEven(a, b) ==
    LET q == a \div b
        r == a % b
    IN  IF 2 * r < b THEN q
        ELSE IF 2 * r > b THEN q + 1
        ELSE IF q % 2 = 0 THEN q ELSE q + 1

\* 100 * np.percentile(s, q): linear interpolation at q(m-1)/100
percentile100(s, q) ==
    LET v == SortInt(s)
        pos == q * (Len(v) - 1)
        lo == pos \div 100 + 1
        fr == pos % 100
    IN  100 * v[lo] + (IF fr = 0 THEN 0 ELSE (v[lo + 1] - v[lo]) * fr)

RowDigest(d, i) ==
    SumInt([j \in DOMAIN d.columns |->
              ((d.data[d.columns[j]][i][1] % 997) * j + (d.data[d.columns[j]][i][2] % 997)) % 997])

Digest(d) == SumInt([i \in 1..d.n |-> (RowDigest(d, i) * i) % 9973]) % 9973

\* StandardScaler().fit(df)
StandardScaler_fit(d) == [estimator |-> "StandardScaler", fitted_on |-> Digest(d), n_features |-> Len(d.columns)]

\* PCA(n_components, random_state).fit(X_scaled)
PCA_fit(d, n_components, random_state) ==
    [estimator |-> "PCA", n_components |-> n_components, random_state |-> random_state,
     fitted_on |-> Digest(d)]

\* pca.explained_variance_ratio_.cumsum(), in units of 1/100000
explained_cumsum(d, n_components, behaviour) ==
    LET last == 50000 + ((Digest(d) * (behaviour + 1)) % 50001)
    IN  [k \in 1..n_components |-> (last * k) \div n_components]

\* the seed of the forest's own generator: random_state when it is given
forest_seed(random_state, rng) == random_state

\* the trees' scores of the training rows
score_samples(d, seed, behaviour) ==
    [i \in 1..d.n |-> 0 - (1 + ((RowDigest(d, i) * (behaviour + 2) + seed * 13) % 60))]

\* IsolationForest(...).fit(X): offset_ is the contamination percentile of the scores
IsolationForest_fit(d, seed, behaviour) ==
    [estimator |-> "IsolationForest", n_estimators |-> N_ESTIMATORS,
     contamination |-> CONTAMINATION, seed |-> seed, fitted_on |-> Digest(d),
     offset |-> percentile100(score_samples(d, seed, behaviour),
                              (100 * CONTAMINATION[1]) \div CONTAMINATION[2])]

\* model.decision_function(X) = score_samples(X) - offset_
decision_function(model, d, behaviour) ==
    LET raw == score_samples(d, model.seed, behaviour)
    IN  [i \in 1..d.n |-> 100 * raw[i] - model.offset]

\* model.predict(X): -1 where the decision function is negative, else 1
predict(model, d, behaviour) ==
    LET dec == decision_function(model, d, behaviour)
    IN  [i \in 1..d.n |-> IF dec[i] < 0 THEN 0 - 1 ELSE 1]

flags_of_normal(labels) == [i \in DOMAIN labels |-> IF labels[i] = 1 THEN 1 ELSE 0]

\* anomaly_flags = (labels == -1).astype(int)
anomaly_flags_of(labels) == [i \in DOMAIN labels |-> IF labels[i] = 0 - 1 THEN 1 ELSE 0]

\* the metrics dict; anomaly_percentage in units of 1/100, the scores in 1/10000
metrics_of(n_samples, explained, n_anomalies, n_normal, n_flags, scores) ==
    [model |-> "IsolationForest + PCA",
     n_samples |-> n_samples,
     n_components_pca |-> 10,
     variance_explained |-> RoundHalfEven(explained[Len(explained)], 10),
     contamination |-> CONTAMINATION,
     n_anomalies |-> n_anomalies,
     n_normal |-> n_normal,
     anomaly_percentage |-> RoundHalfEven(n_anomalies * 100 * 100, n_flags),
     anomaly_score_mean |-> RoundHalfEven(SumInt(scores), Len(scores)),
     anomaly_score_min |-> MinInt(scores),
     anomaly_score_max |-> MaxInt(scores)]

metrics_first ==
    <<"tr_mkdir", "tr_read", "tr_scale", "tr_pca", "tr_forest", "tr_scores", "tr_metrics",
      "tr_fig_variance", "tr_fig_scatter", "tr_fig_scores",
      "tr_dump_model", "tr_dump_scaler", "tr_dump_pca">>

\* the order of the statements of train()
train_steps ==
    <<"tr_mkdir", "tr_read", "tr_scale", "tr_pca", "tr_fig_variance", "tr_forest",
      "tr_scores", "tr_metrics", "tr_fig_scatter", "tr_fig_scores",
      "tr_dump_model", "tr_dump_scaler", "tr_dump_pca">>

TrainLocals(rng) ==
    [rng |-> rng, written |-> {}, scaler |-> <<>>, pca_full |-> <<>>, explained |-> <<>>,
     pca_2d |-> <<>>, model |-> <<>>, labels |-> <<>>, anomaly_flags |-> <<>>,
     n_anomalies |-> 0, n_normal |-> 0, scores |-> <<>>, metrics |-> <<>>]

\* a step of train that changes only locals
TrLocal(newloc) ==
    /\ loc' = newloc
    /\ pc' = After(train_steps, pc)
    /\ UNCHANGED <<fs, dirs, df, status, argv, lib>>

\* a step of train that writes one file
TrWrite(path, content) ==
    /\ fs' = write_file(fs, path, content)
    /\ loc' = [loc EXCEPT !.written = @ \cup {path}]
    /\ pc' = After(train_steps, pc)
    /\ status' = IF After(train_steps, pc) = "idle"
                 THEN [script |-> "train", code |-> "ok"] ELSE status
    /\ UNCHANGED <<dirs, df, argv, lib>>

TrStart ==
    /\ pc = "idle"
    /\ pc' = train_steps[1]
    /\ \E e \in 0..MaxEntropy : loc' = TrainLocals(Entropy(e))
    /\ argv' = <<>>
    /\ df' = NoDF
    /\ UNCHANGED <<fs, dirs, status, lib>>

TrMkdir ==
    /\ pc = "tr_mkdir"
    /\ dirs' = dirs \cup {"models", "reports", FIGURES_DIR}
    /\ pc' = After(train_steps, pc)
    /\ UNCHANGED <<fs, df, loc, status, argv, lib>>

TrRead ==
    /\ pc = "tr_read"
    /\ IF Exists(PROCESSED_PATH)
       THEN /\ df' = read_csv(fs[PROCESSED_PATH][1])
            /\ pc' = After(train_steps, pc)
            /\ UNCHANGED <<fs, dirs, loc, status, argv, lib>>
       ELSE Raise("train") /\ UNCHANGED dirs

\* what StandardScaler accepts: numbers only, no infinity, at least one row and column
ScalerAccepts(d) ==
    /\ ~HasCol(d, "CUST_ID")
    /\ d.n >= 1 /\ Len(d.columns) >= 1
    /\ \A c \in ColSet(d) : \A i \in 1..d.n : ~IsInf(d.data[c][i])

\* what PCA(n_components) accepts: no NaN, n_components <= min(rows, columns)
PCAAccepts(d, n_components) ==
    /\ \A c \in ColSet(d) : \A i \in 1..d.n : ~IsNaN(d.data[c][i])
    /\ n_components <= d.n /\ n_components <= Len(d.columns)

TrScale ==
    /\ pc = "tr_scale"
    /\ IF ScalerAccepts(df)
       THEN TrLocal([loc EXCEPT !.scaler = StandardScaler_fit(df)])
       ELSE Raise("train") /\ UNCHANGED dirs

TrPca ==
    /\ pc = "tr_pca"
    /\ IF PCAAccepts(df, N_COMPONENTS)
       THEN TrLocal([loc EXCEPT !.pca_full = PCA_fit(df, N_COMPONENTS, RANDOM_STATE),
                                !.explained = explained_cumsum(df, N_COMPONENTS, lib),
                                !.pca_2d = PCA_fit(df, 2, RANDOM_STATE)])
       ELSE Raise("train") /\ UNCHANGED dirs

TrFigVariance ==
    /\ pc = "tr_fig_variance"
    /\ TrWrite(PCA_VARIANCE_PNG, [plot |-> "pca_variance", y |-> loc.explained])

TrForest ==
    /\ pc = "tr_forest"
    /\ LET model == IsolationForest_fit(df, forest_seed(RANDOM_STATE, loc.rng), lib)
           labels == predict(model, df, lib)
           anomaly_flags == anomaly_flags_of(labels)
           n_anomalies == SumInt(anomaly_flags)
       IN  TrLocal([loc EXCEPT !.model = model, !.labels = labels,
                               !.anomaly_flags = anomaly_flags,
                               !.n_anomalies = n_anomalies,
                               !.n_normal = Len(anomaly_flags) - n_anomalies])

TrScores ==
    /\ pc = "tr_scores"
    /\ TrLocal([loc EXCEPT !.scores = decision_function(loc.model, df, lib)])

TrMetrics ==
    /\ pc = "tr_metrics"
    /\ LET metrics == metrics_of(df.n, loc.explained, loc.n_anomalies, loc.n_normal,
                                 Len(loc.anomaly_flags), loc.scores)
       IN  /\ fs' = write_file(fs, METRICS_PATH, metrics)
           /\ loc' = [loc EXCEPT !.written = @ \cup {METRICS_PATH}, !.metrics = metrics]
           /\ pc' = After(train_steps, pc)
           /\ UNCHANGED <<dirs, df, status, argv, lib>>

TrFigScatter ==
    /\ pc = "tr_fig_scatter"
    /\ TrWrite(ANOMALY_SCATTER_PNG,
               [plot |-> "anomaly_scatter", X_2d |-> loc.pca_2d, flags |-> loc.anomaly_flags,
                n_normal |-> loc.n_normal, n_anomalies |-> loc.n_anomalies])

TrFigScores ==
    /\ pc = "tr_fig_scores"
    /\ TrWrite(ANOMALY_SCORES_PNG,
               [plot |-> "anomaly_scores", scores |-> loc.scores, flags |-> loc.anomaly_flags])

TrDumpModel == pc = "tr_dump_model" /\ TrWrite(MODEL_PATH, loc.model)

TrDumpScaler == pc = "tr_dump_scaler" /\ TrWrite(SCALER_PATH, loc.scaler)

TrDumpPca == pc = "tr_dump_pca" /\ TrWrite(PCA_PATH, loc.pca_full)

Train ==
    \/ TrStart \/ TrMkdir \/ TrRead \/ TrScale \/ TrPca \/ TrFigVariance \/ TrForest
    \/ TrScores \/ TrMetrics \/ TrFigScatter \/ TrFigScores
    \/ TrDumpModel \/ TrDumpScaler \/ TrDumpPca

----------------------------------------------------------------------------
(* The pipeline: the operator runs the three scripts one at a time, in any *)
(* order, and may remove or edit the two tables between runs.              *)

ByOperator == [script |-> "operator", code |-> "ok"]

\* rm <path>
OpRemove ==
    /\ pc = "idle"
    /\ \E p \in {RAW_PATH, PROCESSED_PATH} :
          /\ Exists(p)
          /\ fs' = [fs EXCEPT ![p] = <<>>]
    /\ status' = ByOperator
    /\ UNCHANGED <<dirs, pc, df, loc, argv, lib>>

\* the raw table loses a column the preprocessor needs
OpDropColumn ==
    /\ pc = "idle"
    /\ Exists(RAW_PATH)
    /\ \E c \in {"TENURE", "PAYMENTS"} :
          /\ HasCol(read_csv(fs[RAW_PATH][1]), c)
          /\ fs' = write_file(fs, RAW_PATH, to_csv(drop_ignore(read_csv(fs[RAW_PATH][1]), c)))
    /\ status' = ByOperator
    /\ UNCHANGED <<dirs, pc, df, loc, argv, lib>>

\* the processed table is cut down to its first N_COMPONENTS - 1 columns
OpCutColumns ==
    /\ pc = "idle"
    /\ Exists(PROCESSED_PATH)
    /\ LET d == read_csv(fs[PROCESSED_PATH][1])
           keep == SubSeq(d.columns, 1, N_COMPONENTS - 1)
       IN  /\ Len(d.columns) >= N_COMPONENTS
           /\ fs' = write_file(fs, PROCESSED_PATH,
                        to_csv([columns |-> keep, n |-> d.n,
                                data |-> [c \in {keep[j] : j \in DOMAIN keep} |-> d.data[c]]]))
    /\ status' = ByOperator
    /\ UNCHANGED <<dirs, pc, df, loc, argv, lib>>

Operator == OpRemove \/ OpDropColumn \/ OpCutColumns

Init ==
    /\ fs = NoFiles
    /\ dirs = {}
    /\ pc = "idle"
    /\ df = NoDF
    /\ loc = <<>>
    /\ status = NoStatus
    /\ argv = <<>>
    /\ lib \in 0..MaxLib

Next == Generate \/ Preprocess \/ Train \/ Operator

Spec == Init /\ [][Next]_vars

----------------------------------------------------------------------------
(* generate_credit_card_data called on its own, with any seed.             *)

InitGen ==
    /\ fs = NoFiles
    /\ dirs = {}
    /\ pc = "call"
    /\ df = NoDF
    /\ \E e \in 0..MaxEntropy : loc = [rng |-> Entropy(e)]
    /\ status = NoStatus
    /\ \E n \in {N_V1, N_V2}, sd \in 0..MaxSeed : argv = [n_samples |-> n, seed |-> sd]
    /\ lib = 0

GenCall ==
    /\ pc = "call"
    /\ df' = generate_credit_card_data(argv.n_samples, argv.seed, loc.rng)
    /\ pc' = "returned"
    /\ UNCHANGED <<fs, dirs, loc, status, argv, lib>>

NextGen == GenCall

SpecGen == InitGen /\ [][NextGen]_vars

\* C4: the generated table has exactly NAN_CREDIT (1) missing CREDIT_LIMIT
\* cells, exactly NAN_MIN (313 in the source) missing MINIMUM_PAYMENTS cells and
\* none elsewhere: each column's rows are drawn without replacement.  The two
\* draws are separate, so a row may be missing in both (the witness).
C4_MissingCounts ==
    pc = "returned" =>
        /\ df.n = argv.n_samples
        /\ isna_sum(df.data["CREDIT_LIMIT"]) = NAN_CREDIT
        /\ isna_sum(df.data["MINIMUM_PAYMENTS"]) = NAN_MIN
        /\ \A c \in NumericCols(df) \ {"CREDIT_LIMIT", "MINIMUM_PAYMENTS"} :
              isna_sum(df.data[c]) = 0

C4_Witness ==
    /\ pc = "returned"
    /\ argv.seed \in {SEED_V1, SEED_V2}
    /\ \E i \in 1..df.n :
          IsNaN(df.data["CREDIT_LIMIT"][i]) /\ IsNaN(df.data["MINIMUM_PAYMENTS"][i])

----------------------------------------------------------------------------
(* train on its own, on the processed table of any generated table.        *)

InitTrain ==
    /\ \E n \in {N_V1, N_V2}, sd \in 0..MaxTrainSeed :
          fs = write_file(NoFiles, PROCESSED_PATH,
                          to_csv(preprocess_df(generate_credit_card_data(n, sd, Entropy(0)))))
    /\ dirs = {"data/raw", "data/processed"}
    /\ pc = "idle"
    /\ df = NoDF
    /\ loc = <<>>
    /\ status = NoStatus
    /\ argv = <<>>
    /\ lib \in 0..MaxLib

NextTrain == Train

SpecTrain == InitTrain /\ [][NextTrain]_vars

TrainDone == pc = "idle" /\ status = [script |-> "train", code |-> "ok"]

Abs(x) == IF x < 0 THEN 0 - x ELSE x

\* C6: in the metrics written by train, n_anomalies is the number of training
\* rows whose decision_function score is below zero, n_anomalies + n_normal =
\* n_samples = rows of the processed table, and anomaly_percentage is
\* n_anomalies / n_samples * 100 to the nearest 1/100.
C6_MetricsCounts ==
    TrainDone =>
        LET m == fs[METRICS_PATH][1]
            n == read_csv(fs[PROCESSED_PATH][1]).n
        IN  /\ Len(loc.scores) = n
            /\ m.n_anomalies = Cardinality({i \in 1..n : loc.scores[i] < 0})
            /\ m.n_anomalies + m.n_normal = m.n_samples
            /\ m.n_samples = n
            /\ 2 * Abs(m.anomaly_percentage * n - m.n_anomalies * 100 * 100) <= n

C6_Witness ==
    /\ TrainDone
    /\ fs[METRICS_PATH][1].n_anomalies >= 1
    /\ fs[METRICS_PATH][1].n_normal >= 1
    /\ (fs[METRICS_PATH][1].n_anomalies * 100 * 100) % fs[METRICS_PATH][1].n_samples # 0

----------------------------------------------------------------------------
(* Claims about preprocess.                                                *)

PreDone == pc = "idle" /\ status = [script |-> "preprocess", code |-> "ok"]

RawDF == read_csv(fs[RAW_PATH][1])

ProcessedDF == read_csv(fs[PROCESSED_PATH][1])

NoMissing(d) == \A c \in NumericCols(d) : \A i \in 1..d.n : ~IsNaN(d.data[c][i])

HasValue(d, c) == \E i \in 1..d.n : ~IsNaN(d.data[c][i])

\* a table of the generator's schema (TENURE drawn from 6..12) whose missing
\* cells lie only in the two designated columns, neither of them all missing
GeneratorLike(d) ==
    /\ \A c \in NumericCols(d) \ {"CREDIT_LIMIT", "MINIMUM_PAYMENTS"} :
          \A i \in 1..d.n : ~IsNaN(d.data[c][i])
    /\ \A i \in 1..d.n : d.data["TENURE"][i] \in {Num(t) : t \in 6..12}
    /\ HasValue(d, "CREDIT_LIMIT")
    /\ HasValue(d, "MINIMUM_PAYMENTS")

\* every clipped column has a value, hence a 99th percentile, after imputation
Clippable(d) == \A k \in DOMAIN cols_to_clip : HasValue(d, cols_to_clip[k])

\* the raw column with its missing cells replaced by the median of the others
Imputed(d, c) ==
    [i \in 1..d.n |-> IF IsNaN(d.data[c][i]) THEN median(d.data[c]) ELSE d.data[c][i]]

C2_ClipAtP99 ==
    (PreDone /\ Clippable(RawDF)) =>
        \A k \in DOMAIN cols_to_clip :
            LET col == cols_to_clip[k]
                before == Imputed(RawDF, col)
                upper == quantile(before, 99)
                after == ProcessedDF.data[col]
            IN  \A i \in 1..RawDF.n :
                    /\ RLe(after[i], upper)
                    /\ RLe(before[i], upper) => after[i] = before[i]
                    /\ ~RLe(before[i], upper) => after[i] = upper
                    /\ RLe(after[i], before[i])

C2_Witness ==
    /\ PreDone /\ Clippable(RawDF)
    /\ \E i, j \in 1..RawDF.n :
          LET before == Imputed(RawDF, "MINIMUM_PAYMENTS")
              after == ProcessedDF.data["MINIMUM_PAYMENTS"]
          IN  /\ IsNaN(RawDF.data["MINIMUM_PAYMENTS"][j])
              /\ after[i] # before[i]
              /\ after[j] = before[j]
              /\ after[i] = quantile(before, 99)

\* C3: every row's four derived columns are the quotients of the raw
\* (unclipped) PURCHASES, CASH_ADVANCE, BALANCE by TENURE or by CREDIT_LIMIT + 1,
\* CREDIT_LIMIT being the raw value or, where missing, the column median.
C3_DerivedFromRaw ==
    PreDone =>
        LET raw == RawDF
            out == ProcessedDF
            limit == SeriesAdd(Imputed(raw, "CREDIT_LIMIT"), 1)
        IN  /\ out.n = raw.n
            /\ \A i \in 1..raw.n :
                /\ out.data["MONTHLY_AVG_PURCHASE"][i]
                     = RDiv(raw.data["PURCHASES"][i], raw.data["TENURE"][i])
                /\ out.data["MONTHLY_AVG_CASH_ADVANCE"][i]
                     = RDiv(raw.data["CASH_ADVANCE"][i], raw.data["TENURE"][i])
                /\ out.data["PURCHASE_TO_LIMIT_RATIO"][i]
                     = RDiv(raw.data["PURCHASES"][i], limit[i])
                /\ out.data["BALANCE_TO_LIMIT_RATIO"][i]
                     = RDiv(raw.data["BALANCE"][i], limit[i])

C3_Witness ==
    /\ PreDone
    /\ \E i, j \in 1..RawDF.n :
          /\ IsNaN(RawDF.data["CREDIT_LIMIT"][j])
          /\ ~IsNaN(ProcessedDF.data["BALANCE_TO_LIMIT_RATIO"][j])
          /\ ProcessedDF.data["PURCHASES"][i] # RawDF.data["PURCHASES"][i]
          /\ ProcessedDF.data["BALANCE"][i] # RawDF.data["BALANCE"][i]
          /\ ProcessedDF.data["MONTHLY_AVG_PURCHASE"][i] # <<0, 1>>

----------------------------------------------------------------------------
(* Claims about the pipeline.                                              *)

GenDone == pc = "idle" /\ status = [script |-> "generate", code |-> "ok"]

StepSet(steps) == {steps[i] : i \in DOMAIN steps}

TrainOutputs ==
    {MODEL_PATH, SCALER_PATH, PCA_PATH, METRICS_PATH,
     PCA_VARIANCE_PNG, ANOMALY_SCATTER_PNG, ANOMALY_SCORES_PNG}

\* the table a first run of the generator writes for a command line
ReferenceTable(args) ==
    IF args = <<>> \/ args[2] = 1
    THEN generate_credit_card_data(N_V1, SEED_V1, Entropy(0))
    ELSE generate_credit_card_data(N_V2, SEED_V2, Entropy(0))

\* C5: the raw table a completed generator run leaves depends on the version
\* selector alone (none given: version 1; 1: N_V1 rows, seed 42; 2: N_V2 rows,
\* seed 99): it is the table any other run with that selector writes, whatever
\* state the process's generator started in and whatever was on disk.
C5_Deterministic ==
    GenDone => fs[RAW_PATH] = <<to_csv(ReferenceTable(argv.args))>>

C5_Witness ==
    /\ GenDone
    /\ argv.args = <<"--version", 2>>
    /\ loc.rng # Entropy(0)
    /\ Exists(PROCESSED_PATH) /\ Exists(METRICS_PATH)
    /\ ProcessedDF.n # RawDF.n

\* C7: preprocess keeps the rows and writes the input's columns minus CUST_ID
\* plus the four derived ones: the generator's table has 18 columns and, for
\* version 1, N_V1 rows, its processed table has shape (N_V1, 21), and train
\* reports n_samples = rows of the processed table and contamination = 0.05.
C7_Shapes ==
    /\ GenDone =>
          /\ RawDF.columns = Columns /\ Len(RawDF.columns) = 18
          /\ RawDF.n = IF argv.version = 1 THEN N_V1 ELSE N_V2
    /\ PreDone =>
          /\ ProcessedDF.n = RawDF.n
          /\ ProcessedDF.columns
               = SelectSeq(RawDF.columns, LAMBDA c : c # "CUST_ID") \o DerivedColumns
          /\ RawDF.columns = Columns => Len(ProcessedDF.columns) = 21
          /\ (RawDF.columns = Columns /\ RawDF.n = N_V1) =>
                (ProcessedDF.n = N_V1 /\ Len(ProcessedDF.columns) = 21)
    /\ TrainDone =>
          /\ fs[METRICS_PATH][1].n_samples = ProcessedDF.n
          /\ 100 * fs[METRICS_PATH][1].contamination[1]
               = 5 * fs[METRICS_PATH][1].contamination[2]

C7_Witness ==
    /\ TrainDone
    /\ RawDF.columns = Columns /\ RawDF.n = N_V1
    /\ ProcessedDF.n = N_V1 /\ Len(ProcessedDF.columns) = 21
    /\ fs[METRICS_PATH][1].n_samples = N_V1

\* what train leaves in each of its files when run on table d
TrainOutputsOf(d) ==
    LET scaler == StandardScaler_fit(d)
        pca_full == PCA_fit(d, N_COMPONENTS, RANDOM_STATE)
        explained == explained_cumsum(d, N_COMPONENTS, lib)
        model == IsolationForest_fit(d, RANDOM_STATE, lib)
        scores == decision_function(model, d, lib)
        flags == [i \in 1..d.n |-> IF scores[i] < 0 THEN 1 ELSE 0]
        n_anomalies == SumInt(flags)
    IN  [p \in TrainOutputs |->
          CASE p = MODEL_PATH -> model
            [] p = SCALER_PATH -> scaler
            [] p = PCA_PATH -> pca_full
            [] p = METRICS_PATH ->
                 metrics_of(d.n, explained, n_anomalies, d.n - n_anomalies, d.n, scores)
            [] p = PCA_VARIANCE_PNG -> [plot |-> "pca_variance", y |-> explained]
            [] p = ANOMALY_SCATTER_PNG ->
                 [plot |-> "anomaly_scatter", X_2d |-> PCA_fit(d, 2, RANDOM_STATE),
                  flags |-> flags, n_normal |-> d.n - n_anomalies,
                  n_anomalies |-> n_anomalies]
            [] p = ANOMALY_SCORES_PNG ->
                 [plot |-> "anomaly_scores", scores |-> scores, flags |-> flags]]

C8_Step ==
    \* no stage writes another stage's files
    /\ pc \in StepSet(generate_steps) => \A p \in Paths \ {RAW_PATH} : fs'[p] = fs[p]
    /\ pc \in StepSet(preprocess_steps) => \A p \in Paths \ {PROCESSED_PATH} : fs'[p] = fs[p]
    /\ pc \in StepSet(train_steps) => \A p \in Paths \ TrainOutputs : fs'[p] = fs[p]
    \* a completed stage has replaced its outputs, from its input alone
    /\ (pc # "idle" /\ GenDone') =>
          /\ fs'[RAW_PATH] = <<to_csv(df')>>
          /\ Len(fs'[RAW_PATH][1].lines) = IF argv.version = 1 THEN N_V1 ELSE N_V2
    /\ (pc # "idle" /\ PreDone') =>
          fs'[PROCESSED_PATH] = <<to_csv(preprocess_df(read_csv(fs[RAW_PATH][1])))>>
    /\ (pc # "idle" /\ TrainDone') =>
          /\ loc'.written = TrainOutputs
          /\ \A p \in TrainOutputs :
                fs'[p] = <<TrainOutputsOf(read_csv(fs[PROCESSED_PATH][1]))[p]>>

\* C8: each completed run has replaced its own outputs using only its input:
\* the raw table is the last generated table (not appended to), the processed
\* table is the preprocessing of the raw file as preprocess found it, and the
\* metrics, figures and artifacts are those of the processed file as train
\* found it; no stage writes another stage's files.
C8_OutputsReplaced == [][C8_Step]_vars

C8_Witness ==
    /\ pc = "tr_dump_pca"
    /\ loc.written = TrainOutputs \ {PCA_PATH}
    /\ Exists(PCA_PATH)
    /\ fs[PCA_PATH][1] # loc.pca_full
    /\ Exists(RAW_PATH)
    /\ RawDF.n # df.n

PreRequired ==
    {"CREDIT_LIMIT", "MINIMUM_PAYMENTS", "PURCHASES", "TENURE", "CASH_ADVANCE",
     "BALANCE", "PAYMENTS"}

\* the raw table is missing or lacks a column preprocess uses
PreInputBad ==
    ~Exists(RAW_PATH) \/ ~(PreRequired \subseteq ColSet(RawDF))

\* the processed table is missing or has fewer columns than the projection needs
TrainInputBad ==
    ~Exists(PROCESSED_PATH) \/ Len(ProcessedDF.columns) < N_COMPONENTS

C9_Step ==
    /\ (pc \in StepSet(preprocess_steps) /\ PreInputBad) =>
          /\ fs' = fs
          /\ pc' = "idle" => status' = [script |-> "preprocess", code |-> "error"]
    /\ (pc \in StepSet(train_steps) /\ TrainInputBad) =>
          /\ fs' = fs
          /\ pc' = "idle" => status' = [script |-> "train", code |-> "error"]
    /\ (status' # status /\ status'.code = "error") => fs' = fs

\* C9: a run of preprocess or train whose input file is missing or lacks a
\* required column writes nothing and ends in an error: no output file is
\* created or modified, so an earlier run's outputs stay as they were.
C9_FailureWritesNothing == [][C9_Step]_vars

C9_Witness ==
    /\ pc = "idle"
    /\ status = [script |-> "train", code |-> "error"]
    /\ Exists(PROCESSED_PATH)
    /\ Exists(METRICS_PATH) /\ Exists(PCA_PATH)
    /\ Exists(RAW_PATH) /\ ~(PreRequired \subseteq ColSet(RawDF))

InTrain == pc \in StepSet(train_steps) \/ TrainDone

Figures == {PCA_VARIANCE_PNG, ANOMALY_SCATTER_PNG, ANOMALY_SCORES_PNG}

Artifacts == {MODEL_PATH, SCALER_PATH, PCA_PATH}

\* C10 as stated: in every state of a train run, metrics.json of this run
\* exists only if all three figures of this run exist.
C10_FiguresBeforeMetrics ==
    (InTrain /\ METRICS_PATH \in loc.written) => Figures \subseteq loc.written

\* C10 amended: pca_variance.png is written before metrics.json, metrics.json
\* before anomaly_scatter.png, that before anomaly_scores.png, and all three
\* figures and the metrics before the three artifacts.
C10_WriteOrder ==
    InTrain =>
        /\ METRICS_PATH \in loc.written => PCA_VARIANCE_PNG \in loc.written
        /\ ANOMALY_SCATTER_PNG \in loc.written => METRICS_PATH \in loc.written
        /\ ANOMALY_SCORES_PNG \in loc.written => ANOMALY_SCATTER_PNG \in loc.written
        /\ loc.written \cap Artifacts # {} => Figures \cup {METRICS_PATH} \subseteq loc.written

C10_Witness ==
    /\ pc = "tr_fig_scatter"
    /\ METRICS_PATH \in loc.written
    /\ ANOMALY_SCATTER_PNG \notin loc.written
    /\ Exists(ANOMALY_SCATTER_PNG)

====
